---------------------------- MODULE Spec2Model ----------------------------
(***************************************************************************)
(* Calculation engine of the finance dashboard: account balance as of a    *)
(* date (with APR compounding), credit utilization and payoff projections, *)
(* as implemented by the dashboard (EnhancedFinanceManager) and by the     *)
(* chat front end (LiveAgentChat).                                         *)
(*                                                                         *)
(* Numbers.  The source computes in IEEE doubles.  The model computes in   *)
(* fixed point: every computed amount is an integer count of 1/Scale       *)
(* units, and a product with a rate is truncated to that precision.        *)
(* Amounts, limits and APRs stored in records are plain integers, as typed *)
(* into the forms.                                                         *)
(*                                                                         *)
(* Dates.  A date is an instant given by its local calendar fields         *)
(* [y, m, d] (m is getMonth(), 0..11).  Instants are ordered by Stamp.     *)
(***************************************************************************)
EXTENDS Integers, Sequences, FiniteSets, TLC

VARIABLES
    accounts,            \* useState([]) accounts: sequence of Account records
    transactions,        \* useState([]) transactions: sequence of Transaction records
    now,                 \* the instant new Date() returns
    projectionScenario,  \* useState('current')
    selectedAccount,     \* useState('all')
    timeframe,           \* useState('6m')
    storage,             \* localStorage: the parsed values of the accounts and transactions keys
    out,                 \* the last evaluated function, its instant and the value it returned
    showDeleteConfirm,   \* useState(false)
    deleteItem,          \* useState(null): the id to delete ("" for null)
    deleteType,          \* useState(null): 'account' or 'transaction' ("" for null)
    mounted,             \* the dashboard component root.render has mounted ("none" before)
    initialized,         \* useState(false) of the later dashboards
    effects,             \* the effect callbacks React still has to run for the current commit
    queued,              \* the state updates the effects have enqueued for the next render
    peer,                \* accounts and transactions held by the dashboard of a second tab
    inbox,               \* the storage events in flight to each tab
    clock,               \* the value Date.now() returns, in milliseconds
    retired              \* history: the ids of the records deleted so far

\* the state of the component's lifecycle: pending delete, mount, second tab, id source
lifeVars == <<showDeleteConfirm, deleteItem, deleteType, mounted, initialized, effects,
              queued, peer, inbox, clock, retired>>

vars == <<accounts, transactions, now, projectionScenario, selectedAccount, timeframe,
          storage, out, lifeVars>>

\* the records held in memory and in storage
dataVars == <<accounts, transactions, storage>>

\* the selections of the projection panel
uiVars == <<projectionScenario, selectedAccount, timeframe>>

-----------------------------------------------------------------------------
(* Bounds and input domains                                                *)

\* fixed-point precision: computed amounts are counted in 1/Scale units
Scale == 100

\* largest number of transactions in a snapshot
MaxTx == 2

AccountIds == {"a1", "a2"}

Types == {"debit", "credit"}

Dec31 == [y |-> 2023, m |-> 11, d |-> 31]

Jan01 == [y |-> 2024, m |-> 0, d |-> 1]

Jan31 == [y |-> 2024, m |-> 0, d |-> 31]

Mar01 == [y |-> 2024, m |-> 2, d |-> 1]

Dates == {Dec31, Jan01, Jan31, Mar01}

Amounts == {200, 500}

\* order-preserving key of an instant (Date.prototype.valueOf)
Stamp(date) == (date.y * 12 + date.m) * 31 + date.d

-----------------------------------------------------------------------------
(* Helpers of the source                                                   *)

\* Array.prototype.find for accounts: the first account with this id, or NoAccount
NoAccount == [id |-> "", name |-> "", accountType |-> "", limit |-> 0, apr |-> 0]

RECURSIVE FindFrom(_, _, _)
FindFrom(accts, accountId, i) ==
    IF i > Len(accts) THEN NoAccount
    ELSE IF accts[i].id = accountId THEN accts[i]
    ELSE FindFrom(accts, accountId, i + 1)

Find(accts, accountId) == FindFrom(accts, accountId, 1)

monthsDifference(startDate, endDate) ==
    (endDate.y - startDate.y) * 12 + (endDate.m - startDate.m)

\* Math.min(...relevant.map(t => new Date(t.date))): the earliest instant
RECURSIVE MinDateFrom(_, _, _)
MinDateFrom(txs, i, best) ==
    IF i > Len(txs) THEN best
    ELSE MinDateFrom(txs, i + 1,
                     IF Stamp(txs[i].date) < Stamp(best) THEN txs[i].date ELSE best)

MinDate(txs) == MinDateFrom(txs, 2, txs[1].date)

\* reduce((sum, t) => sum + (t.type === 'credit' ? Number(t.amount) : -Number(t.amount)), 0)
RECURSIVE SignedSumFrom(_, _, _)
SignedSumFrom(txs, i, sum) ==
    IF i > Len(txs) THEN sum
    ELSE SignedSumFrom(txs, i + 1,
                       sum + (IF txs[i].type = "credit"
                              THEN txs[i].amount * Scale
                              ELSE -(txs[i].amount * Scale)))

SignedSum(txs) == SignedSumFrom(txs, 1, 0)

\* balance * Math.pow(1 + apr / 100 / 12, months)
RECURSIVE Compound(_, _, _)
Compound(balance, apr, months) ==
    IF months <= 0 THEN balance
    ELSE Compound((balance * (1200 + apr)) \div 1200, apr, months - 1)

\* a filter that forgets the date bound
RelevantIgnoringDate(txs, accountId, date) ==
    SelectSeq(txs, LAMBDA t : t.accountId = accountId)

\* transactions.filter(t => t.accountId === accountId && new Date(t.date) <= date)
Relevant(txs, accountId, date) ==
    SelectSeq(txs, LAMBDA t : t.accountId = accountId /\ Stamp(t.date) <= Stamp(date))

-----------------------------------------------------------------------------
(* Balance Calculator                                                      *)

\* compounding without the balance > 0 guard
calculateBalanceAnySign(accts, txs, accountId, date) ==
    LET account == Find(accts, accountId)
        relevantTransactions == Relevant(txs, accountId, date)
        balance == SignedSum(relevantTransactions)
    IN  IF account = NoAccount THEN 0
        ELSE IF account.accountType = "credit" /\ account.apr # 0
        THEN Compound(balance, account.apr,
                      IF Len(relevantTransactions) > 0
                      THEN monthsDifference(MinDate(relevantTransactions), date)
                      ELSE 0)
        ELSE balance

\* the balance without the account lookup
calculateBalanceNoLookup(accts, txs, accountId, date) ==
    SignedSum(Relevant(txs, accountId, date))

\* dashboard, with APR compounding
calculateBalance(accts, txs, accountId, date) ==
    LET account == Find(accts, accountId)
        relevantTransactions == Relevant(txs, accountId, date)
        balance == SignedSum(relevantTransactions)
    IN  IF account = NoAccount THEN 0
        ELSE IF account.accountType = "credit" /\ balance > 0 /\ account.apr # 0
        THEN LET monthsSinceFirstTransaction ==
                     IF Len(relevantTransactions) > 0
                     THEN monthsDifference(MinDate(relevantTransactions), date)
                     ELSE 0
             IN  Compound(balance, account.apr, monthsSinceFirstTransaction)
        ELSE balance

\* dashboard with namespaced storage keys: no compounding
calculateBalanceV3(accts, txs, accountId, date) ==
    LET account == Find(accts, accountId)
    IN  IF account = NoAccount THEN 0
        ELSE SignedSum(Relevant(txs, accountId, date))

\* chat front end: takes the account record itself, no compounding
chatCalculateBalance(account, txs, date) ==
    SignedSum(Relevant(txs, account.id, date))

-----------------------------------------------------------------------------
(* Utilization Aggregator                                                  *)

\* accounts.filter(a => a.accountType === 'credit')
CreditAccounts(accts) == SelectSeq(accts, LAMBDA a : a.accountType = "credit")

\* reduce((sum, account) => sum + Number(account.limit || 0), 0)
RECURSIVE TotalLimitFrom(_, _, _)
TotalLimitFrom(accts, i, sum) ==
    IF i > Len(accts) THEN sum
    ELSE TotalLimitFrom(accts, i + 1, sum + accts[i].limit)

TotalLimit(accts) == TotalLimitFrom(accts, 1, 0)

Max(a, b) == IF a >= b THEN a ELSE b

\* reduce((sum, account) => sum + Math.max(0, balance of account), 0); bal maps ids to balances
RECURSIVE TotalUsedFrom(_, _, _, _)
TotalUsedFrom(accts, bal, i, sum) ==
    IF i > Len(accts) THEN sum
    ELSE TotalUsedFrom(accts, bal, i + 1, sum + Max(0, bal[accts[i].id]))

\* a sum that lets an overpaid account offset what the others owe
RECURSIVE TotalUsedSigned(_, _)
TotalUsedSigned(accts, bal) ==
    IF accts = <<>> THEN 0
    ELSE bal[Head(accts).id] + TotalUsedSigned(Tail(accts), bal)

TotalUsed(accts, bal) == TotalUsedFrom(accts, bal, 1, 0)

\* the ids occurring in a sequence of accounts
IdsOf(accts) == {accts[i].id : i \in 1..Len(accts)}

\* a utilization whose limit total forgets the credit filter
calculateCreditUtilizationAllLimits(accts, txs, date) ==
    LET creditAccounts == CreditAccounts(accts)
        totalLimit == TotalLimit(accts)
        bal == [id \in IdsOf(creditAccounts) |-> calculateBalance(accts, txs, id, date)]
        totalUsed == TotalUsed(creditAccounts, bal)
    IN  IF totalLimit = 0 THEN 0
        ELSE (totalUsed * 100) \div totalLimit

\* dashboard (compounded balances)
calculateCreditUtilization(accts, txs, date) ==
    LET creditAccounts == CreditAccounts(accts)
        totalLimit == TotalLimit(creditAccounts)
        bal == [id \in IdsOf(creditAccounts) |-> calculateBalance(accts, txs, id, date)]
        totalUsed == TotalUsed(creditAccounts, bal)
    IN  IF totalLimit = 0 THEN 0
        ELSE (totalUsed * 100) \div totalLimit

\* dashboard with namespaced storage keys (balances without compounding)
calculateCreditUtilizationV3(accts, txs, date) ==
    LET creditAccounts == CreditAccounts(accts)
        totalLimit == TotalLimit(creditAccounts)
        bal == [id \in IdsOf(creditAccounts) |-> calculateBalanceV3(accts, txs, id, date)]
        totalUsed == TotalUsed(creditAccounts, bal)
    IN  IF totalLimit = 0 THEN 0
        ELSE (totalUsed * 100) \div totalLimit

\* a total that folds over the transactions instead of the accounts
TotalBalanceAllTransactions(accts, txs, date) ==
    SignedSum(SelectSeq(txs, LAMBDA t : Stamp(t.date) <= Stamp(date)))

\* accounts.reduce((sum, account) => sum + calculateBalance(account.id), 0)
RECURSIVE TotalBalanceFrom(_, _, _, _, _)
TotalBalanceFrom(accts, txs, date, i, sum) ==
    IF i > Len(accts) THEN sum
    ELSE TotalBalanceFrom(accts, txs, date, i + 1,
                          sum + calculateBalance(accts, txs, accts[i].id, date))

\* the 'Total Balance' card of the dashboard, before toFixed(2)
TotalBalance(accts, txs, date) == TotalBalanceFrom(accts, txs, date, 1, 0)

\* reduce((sum, account) => sum + calculateBalance(account, transactions), 0)
RECURSIVE ChatTotalBalanceFrom(_, _, _, _, _)
ChatTotalBalanceFrom(accts, txs, date, i, sum) ==
    IF i > Len(accts) THEN sum
    ELSE ChatTotalBalanceFrom(accts, txs, date, i + 1,
                              sum + chatCalculateBalance(accts[i], txs, date))

RECURSIVE ChatTotalUsedFrom(_, _, _, _, _)
ChatTotalUsedFrom(accts, txs, date, i, sum) ==
    IF i > Len(accts) THEN sum
    ELSE ChatTotalUsedFrom(accts, txs, date, i + 1,
                           sum + Max(0, chatCalculateBalance(accts[i], txs, date)))

\* chat front end: { totalBalance, creditUsed } of the stored snapshot
getBusinessMetrics(accts, txs, date) ==
    LET totalBalance == ChatTotalBalanceFrom(accts, txs, date, 1, 0)
        creditAccounts == CreditAccounts(accts)
        totalLimit == TotalLimit(creditAccounts)
        totalUsed == ChatTotalUsedFrom(creditAccounts, txs, date, 1, 0)
        creditUsed == IF totalLimit # 0 THEN (totalUsed * 100) \div totalLimit ELSE 0
    IN  [totalBalance |-> totalBalance, creditUsed |-> creditUsed]

-----------------------------------------------------------------------------
(* Projection Engine                                                       *)

\* timeframe === '6m' ? 6 : timeframe === '1y' ? 12 : 24
Months(tf) == IF tf = "6m" THEN 6 ELSE IF tf = "1y" THEN 12 ELSE 24

\* i === 0 ? 'Current' : `Month ${i}`
MonthLabel(i) == IF i = 0 THEN <<"Current">> ELSE <<"Month", i>>

\* a simulation that works the payment out again from each month's balance
RECURSIVE SimulateRecomputedPayment(_, _, _, _, _)
SimulateRecomputedPayment(currentBalance, interestSum, apr, monthlyPayment, left) ==
    IF left <= 0 THEN [balance |-> currentBalance, interest |-> interestSum]
    ELSE LET interest == (currentBalance * apr) \div 1200
             payment == Max((currentBalance * 2) \div 100, 25 * Scale)
             next == currentBalance + interest - payment
         IN  SimulateRecomputedPayment(IF next < 0 THEN 0 ELSE next,
                                       interestSum + interest, apr, monthlyPayment, left - 1)

\* a simulation that lets the balance go below 0
RECURSIVE SimulateNoClamp(_, _, _, _, _)
SimulateNoClamp(currentBalance, interestSum, apr, monthlyPayment, left) ==
    IF left <= 0 THEN [balance |-> currentBalance, interest |-> interestSum]
    ELSE LET interest == (currentBalance * apr) \div 1200
         IN  SimulateNoClamp(currentBalance + interest - monthlyPayment,
                             interestSum + interest, apr, monthlyPayment, left - 1)

\* a simulation that charges the month's interest on the balance left after the payment
RECURSIVE SimulatePayFirst(_, _, _, _, _)
SimulatePayFirst(currentBalance, interestSum, apr, monthlyPayment, left) ==
    IF left <= 0 THEN [balance |-> currentBalance, interest |-> interestSum]
    ELSE LET paid == IF currentBalance < monthlyPayment THEN 0
                     ELSE currentBalance - monthlyPayment
             interest == (paid * apr) \div 1200
         IN  SimulatePayFirst(paid + interest, interestSum + interest,
                              apr, monthlyPayment, left - 1)

\* for (let i = 0; i < monthIndex; i++) { interest; totalInterest += ; currentBalance += ; clamp }
\* returns [balance, interest] after the remaining `left` iterations
RECURSIVE Simulate(_, _, _, _, _)
Simulate(currentBalance, interestSum, apr, monthlyPayment, left) ==
    IF left <= 0 THEN [balance |-> currentBalance, interest |-> interestSum]
    ELSE LET interest == (currentBalance * apr) \div 1200
             next == currentBalance + interest - monthlyPayment
         IN  Simulate(IF next < 0 THEN 0 ELSE next, interestSum + interest,
                      apr, monthlyPayment, left - 1)

\* a minimum payment without the floor of 25
BaseMinPaymentNoFloor(currentBalance) == (currentBalance * 2) \div 100

\* Math.max(currentBalance * 0.02, 25)
BaseMinPayment(currentBalance) == Max((currentBalance * 2) \div 100, 25 * Scale)

\* payments with the fractions of 'optimal' and 'aggressive' exchanged
MonthlyPaymentSwapped(scenario, currentBalance) ==
    LET baseMinPayment == BaseMinPayment(currentBalance)
    IN  IF scenario = "aggressive" THEN Max(baseMinPayment, (currentBalance * 5) \div 100)
        ELSE IF scenario = "optimal" THEN Max(baseMinPayment, (currentBalance * 10) \div 100)
        ELSE baseMinPayment

MonthlyPayment(scenario, currentBalance) ==
    LET baseMinPayment == BaseMinPayment(currentBalance)
    IN  IF scenario = "aggressive" THEN Max(baseMinPayment, (currentBalance * 10) \div 100)
        ELSE IF scenario = "optimal" THEN Max(baseMinPayment, (currentBalance * 5) \div 100)
        ELSE baseMinPayment

\* relevantAccounts.forEach(account => { ... }) for one row; bal maps ids to present balances
RECURSIVE RowFrom(_, _, _, _, _, _)
RowFrom(relevantAccounts, bal, scenario, monthIndex, i, acc) ==
    IF i > Len(relevantAccounts) THEN acc
    ELSE LET account == relevantAccounts[i]
             currentBalance == bal[account.id]
             baseMinPayment == BaseMinPayment(currentBalance)
             monthlyPayment == MonthlyPayment(scenario, currentBalance)
             sim == Simulate(currentBalance, 0, account.apr, monthlyPayment, monthIndex)
         IN  RowFrom(relevantAccounts, bal, scenario, monthIndex, i + 1,
                     [projectedBalance |-> acc.projectedBalance + sim.balance,
                      totalInterest |-> acc.totalInterest + sim.interest,
                      minimumPayment |-> acc.minimumPayment + baseMinPayment,
                      additionalPayment |-> acc.additionalPayment
                                            + (monthlyPayment - baseMinPayment)])

\* a row that reports no payment once every account is paid off
ProjectionRowNoPaymentWhenPaid(relevantAccounts, bal, scenario, monthIndex) ==
    LET acc == RowFrom(relevantAccounts, bal, scenario, monthIndex, 1,
                       [projectedBalance |-> 0, totalInterest |-> 0,
                        minimumPayment |-> 0, additionalPayment |-> 0])
        paid == acc.projectedBalance = 0
    IN  [month |-> MonthLabel(monthIndex),
         balance |-> acc.projectedBalance,
         interest |-> acc.totalInterest,
         minimumPayment |-> IF paid THEN 0 ELSE acc.minimumPayment,
         additionalPayment |-> IF paid THEN 0 ELSE acc.additionalPayment,
         totalPayment |-> IF paid THEN 0 ELSE acc.minimumPayment + acc.additionalPayment]

ProjectionRow(relevantAccounts, bal, scenario, monthIndex) ==
    LET acc == RowFrom(relevantAccounts, bal, scenario, monthIndex, 1,
                       [projectedBalance |-> 0, totalInterest |-> 0,
                        minimumPayment |-> 0, additionalPayment |-> 0])
    IN  [month |-> MonthLabel(monthIndex),
         balance |-> acc.projectedBalance,
         interest |-> acc.totalInterest,
         minimumPayment |-> acc.minimumPayment,
         additionalPayment |-> acc.additionalPayment,
         totalPayment |-> acc.minimumPayment + acc.additionalPayment]

\* a filter that forgets the account type
RelevantAccountsAnyType(accts, bal, selected) ==
    SelectSeq(accts, LAMBDA a : /\ (selected = "all" \/ a.id = selected)
                                /\ bal[a.id] > 0)

\* accounts.filter(account => (selectedAccount === 'all' || account.id === selectedAccount)
\*                 && account.accountType === 'credit' && calculateBalance(account.id) > 0)
RelevantAccounts(accts, bal, selected) ==
    SelectSeq(accts, LAMBDA a : /\ (selected = "all" \/ a.id = selected)
                                /\ a.accountType = "credit"
                                /\ bal[a.id] > 0)

\* a projection that returns no rows when no account takes part
ProjectionRowsShortCircuit(accts, bal, scenario, tf, selected) ==
    LET relevantAccounts == RelevantAccounts(accts, bal, selected)
    IN  IF relevantAccounts = <<>> THEN <<>>
        ELSE [k \in 1..(Months(tf) + 1) |->
                 ProjectionRow(relevantAccounts, bal, scenario, k - 1)]

\* a label array of length months instead of months + 1
ProjectionRowsShort(accts, bal, scenario, tf, selected) ==
    LET relevantAccounts == RelevantAccounts(accts, bal, selected)
    IN  [k \in 1..Months(tf) |->
            ProjectionRow(relevantAccounts, bal, scenario, k - 1)]

\* monthLabels.map((label, monthIndex) => row); the row of monthIndex k is at position k + 1
ProjectionRows(accts, bal, scenario, tf, selected) ==
    LET relevantAccounts == RelevantAccounts(accts, bal, selected)
    IN  [k \in 1..(Months(tf) + 1) |->
            ProjectionRow(relevantAccounts, bal, scenario, k - 1)]

\* dashboard (compounded balances)
calculateProjections(accts, txs, date, scenario, tf, selected) ==
    ProjectionRows(accts,
                   [id \in IdsOf(accts) |-> calculateBalance(accts, txs, id, date)],
                   scenario, tf, selected)

\* dashboard with namespaced storage keys (balances without compounding)
calculateProjectionsV3(accts, txs, date, scenario, tf, selected) ==
    ProjectionRows(accts,
                   [id \in IdsOf(accts) |-> calculateBalanceV3(accts, txs, id, date)],
                   scenario, tf, selected)

-----------------------------------------------------------------------------
(* Snapshots: the records the forms build                                  *)

\* handleSaveAccount: { id, name, accountType, limit, apr }
AccountRec(id, type, limit, apr) ==
    [id |-> id, name |-> id, accountType |-> type, limit |-> limit, apr |-> apr]

TxChoices(dates) == [accountId : AccountIds, amount : Amounts, type : Types, date : dates]

\* handleSaveTransaction keeps the list sorted by date, newest first
SortedDesc(txs) ==
    \A i \in 1..(Len(txs) - 1) : Stamp(txs[i].date) >= Stamp(txs[i + 1].date)

\* handleSaveTransaction: { id, accountId, amount, type, date }; at most MaxTx of them,
\* each drawn from choices
TxSnapshots(choices) ==
    {[i \in 1..Len(f) |-> [id |-> i, accountId |-> f[i].accountId, amount |-> f[i].amount,
                           type |-> f[i].type, date |-> f[i].date]] :
        f \in {g \in UNION {[1..n -> choices] : n \in 0..MaxTx} : SortedDesc(g)}}

\* no function evaluated yet; at is the instant of the evaluation
NoOut == [op |-> "none", accountId |-> "", at |-> Dec31, value |-> 0]

UiInit ==
    /\ projectionScenario = "current"
    /\ selectedAccount = "all"
    /\ timeframe = "6m"
    /\ out = NoOut

\* the two browser tabs that can show the dashboard
Tabs == {1, 2}

\* the component state at construction: no delete pending, nothing mounted, no effect
\* to run, no event in flight, no id issued
LifeInit ==
    /\ showDeleteConfirm = FALSE
    /\ deleteItem = ""
    /\ deleteType = ""
    /\ mounted = "none"
    /\ initialized = FALSE
    /\ effects = <<>>
    /\ queued = <<>>
    /\ peer = [accounts |-> <<>>, transactions |-> <<>>]
    /\ inbox = [tab \in Tabs |-> <<>>]
    /\ clock = 1
    /\ retired = [accounts |-> {}, transactions |-> {}]

\* the persist effect has written the loaded state: JSON.stringify followed by JSON.parse
\* gives back the same records (strings and finite numbers only)
Persisted(accts, txs) == [accounts |-> accts, transactions |-> txs]

StoreInit == storage = Persisted(accounts, transactions)

-----------------------------------------------------------------------------
(* Balance Calculator applied to snapshots                                 *)

BalanceAccountSnapshots ==
    {<<>>}
    \cup {<<AccountRec("a1", t, 1000, apr)>> : t \in Types, apr \in {-12, 0, 12}}
    \cup {<<AccountRec("a1", t, 1000, apr), AccountRec("a2", "credit", 1000, 12)>> :
            t \in Types, apr \in {-12, 0, 12}}

InitBalance ==
    /\ accounts \in BalanceAccountSnapshots
    /\ transactions \in TxSnapshots(TxChoices({Dec31, Jan01, Jan31}))
    /\ now \in {Jan01, Jan31, Mar01}
    /\ UiInit
    /\ LifeInit
    /\ StoreInit

\* an evaluation that sorts the transactions in place, oldest first
CalcBalanceSorting(accountId) ==
    /\ out' = [op |-> "calculateBalance", accountId |-> accountId, at |-> now,
               value |-> calculateBalance(accounts, transactions, accountId, now)]
    /\ transactions' = [i \in 1..Len(transactions) |->
                            transactions[Len(transactions) + 1 - i]]
    /\ UNCHANGED <<accounts, storage, now, uiVars, lifeVars>>

\* calculateBalance(accountId) of the dashboard, date defaulting to new Date()
CalcBalance(accountId) ==
    /\ out' = [op |-> "calculateBalance", accountId |-> accountId, at |-> now,
               value |-> calculateBalance(accounts, transactions, accountId, now)]
    /\ UNCHANGED <<dataVars, now, uiVars, lifeVars>>

\* calculateBalance(accountId) of the dashboard with namespaced storage keys
CalcBalanceV3(accountId) ==
    /\ out' = [op |-> "calculateBalanceV3", accountId |-> accountId, at |-> now,
               value |-> calculateBalanceV3(accounts, transactions, accountId, now)]
    /\ UNCHANGED <<dataVars, now, uiVars, lifeVars>>

NextBalance ==
    \/ \E accountId \in AccountIds : CalcBalance(accountId)
    \/ \E accountId \in AccountIds : CalcBalanceV3(accountId)

SpecBalance == InitBalance /\ [][NextBalance]_vars

-----------------------------------------------------------------------------
(* Properties of the Balance Calculator                                    *)

\* indices of the transactions of accountId dated at or before date
Qualifying(accountId, date) ==
    {i \in 1..Len(transactions) :
        /\ transactions[i].accountId = accountId
        /\ Stamp(transactions[i].date) <= Stamp(date)}

RECURSIVE SumAmounts(_)
SumAmounts(S) ==
    IF S = {} THEN 0
    ELSE LET i == CHOOSE j \in S : TRUE
         IN  transactions[i].amount + SumAmounts(S \ {i})

\* credits minus debits over the qualifying transactions, in 1/Scale units
Principal(accountId, date) ==
    LET Q == Qualifying(accountId, date)
    IN  Scale * (SumAmounts({i \in Q : transactions[i].type = "credit"})
                 - SumAmounts({i \in Q : transactions[i].type = "debit"}))

Present(accountId) == accountId \in IdsOf(accounts)

AccountOf(accountId) == CHOOSE a \in {accounts[i] : i \in 1..Len(accounts)} : a.id = accountId

\* months fully elapsed between two instants
WholeMonths(startDate, endDate) ==
    monthsDifference(startDate, endDate) - (IF endDate.d < startDate.d THEN 1 ELSE 0)

EarliestQualifying(accountId, date) ==
    LET Q == Qualifying(accountId, date)
    IN  transactions[CHOOSE i \in Q :
                        \A j \in Q : Stamp(transactions[i].date) <= Stamp(transactions[j].date)].date

\* C1: for an account of the snapshot to which no compounding applies (a debit
\* account, or a credit account with apr = 0), the balance is the sum of the credit
\* amounts minus the sum of the debit amounts over exactly the transactions of that
\* account dated at or before the as-of date; it is 0 when none qualifies.
C1_BalanceIsSignedSum ==
    (/\ out.op = "calculateBalance"
     /\ Present(out.accountId)
     /\ (AccountOf(out.accountId).accountType = "debit" \/ AccountOf(out.accountId).apr = 0))
    => /\ out.value = Principal(out.accountId, now)
       /\ (Qualifying(out.accountId, now) = {} => out.value = 0)

\* a balance computed from one qualifying transaction while the snapshot also holds
\* a transaction of the same account dated after the as-of date
C1_Witness ==
    /\ out.op = "calculateBalance"
    /\ Present(out.accountId)
    /\ AccountOf(out.accountId).accountType = "credit"
    /\ AccountOf(out.accountId).apr = 0
    /\ Cardinality(Qualifying(out.accountId, now)) = 1
    /\ \E i \in 1..Len(transactions) :
          /\ transactions[i].accountId = out.accountId
          /\ Stamp(transactions[i].date) > Stamp(now)
    /\ out.value # 0

\* C2: for a credit account with apr > 0 and positive principal P the balance is
\* P * (1 + apr/100/12)^n with n the number of fully elapsed months between the
\* earliest included transaction and the as-of date.
C2_CompoundsOverWholeMonths ==
    (/\ out.op = "calculateBalance"
     /\ Present(out.accountId)
     /\ AccountOf(out.accountId).accountType = "credit"
     /\ AccountOf(out.accountId).apr > 0
     /\ Principal(out.accountId, now) > 0)
    => out.value = Compound(Principal(out.accountId, now), AccountOf(out.accountId).apr,
                            WholeMonths(EarliestQualifying(out.accountId, now), now))

C4_UnknownAccountIsZero ==
    (/\ out.op \in {"calculateBalance", "calculateBalanceV3"}
     /\ ~Present(out.accountId))
    => out.value = 0

\* the id is unknown and its transactions up to the as-of date sum to a non-zero amount
C4_Witness ==
    /\ out.op = "calculateBalance"
    /\ ~Present(out.accountId)
    /\ Principal(out.accountId, now) # 0
    /\ out.value = 0

-----------------------------------------------------------------------------
(* Utilization Aggregator applied to snapshots                             *)

UtilAccountSnapshots ==
    {<<>>}
    \cup {<<AccountRec("a1", t, l, apr)>> : t \in Types, l \in {0, 1000}, apr \in {0, 12}}
    \cup {<<AccountRec("a1", t, l, apr), AccountRec("a2", t2, l2, 12)>> :
            t \in Types, l \in {0, 1000}, apr \in {0, 12},
            t2 \in Types, l2 \in {-1000, 0, 1000}}

InitUtil ==
    /\ accounts \in UtilAccountSnapshots
    /\ transactions \in TxSnapshots(TxChoices({Dec31, Jan31}))
    /\ now = Jan31
    /\ UiInit
    /\ LifeInit
    /\ StoreInit

\* calculateCreditUtilization() of the dashboard
CalcCreditUtilization ==
    /\ out' = [op |-> "calculateCreditUtilization", accountId |-> "", at |-> now,
               value |-> calculateCreditUtilization(accounts, transactions, now)]
    /\ UNCHANGED <<dataVars, now, uiVars, lifeVars>>

\* calculateCreditUtilization() of the dashboard with namespaced storage keys
CalcCreditUtilizationV3 ==
    /\ out' = [op |-> "calculateCreditUtilizationV3", accountId |-> "", at |-> now,
               value |-> calculateCreditUtilizationV3(accounts, transactions, now)]
    /\ UNCHANGED <<dataVars, now, uiVars, lifeVars>>

\* getBusinessMetrics() of the chat, reading the same snapshot from the store
ChatBusinessMetrics ==
    /\ out' = [op |-> "getBusinessMetrics", accountId |-> "", at |-> now,
               value |-> getBusinessMetrics(accounts, transactions, now)]
    /\ UNCHANGED <<dataVars, now, uiVars, lifeVars>>

NextUtil ==
    \/ CalcCreditUtilization
    \/ CalcCreditUtilizationV3
    \/ ChatBusinessMetrics

SpecUtil == InitUtil /\ [][NextUtil]_vars

-----------------------------------------------------------------------------
(* Properties of the Utilization Aggregator                                *)

\* indices of the credit accounts of the snapshot
CreditIndices == {i \in 1..Len(accounts) : accounts[i].accountType = "credit"}

RECURSIVE SumLimits(_)
SumLimits(S) ==
    IF S = {} THEN 0
    ELSE LET i == CHOOSE j \in S : TRUE
         IN  accounts[i].limit + SumLimits(S \ {i})

\* balanceAsOf of the account at index i, at the evaluation instant
BalanceAt(i) == calculateBalance(accounts, transactions, accounts[i].id, now)

RECURSIVE SumOwed(_)
SumOwed(S) ==
    IF S = {} THEN 0
    ELSE LET i == CHOOSE j \in S : TRUE
         IN  (IF BalanceAt(i) > 0 THEN BalanceAt(i) ELSE 0) + SumOwed(S \ {i})

\* C5: the utilization is exactly 0 whenever the snapshot has no credit account or
\* the limits of the credit accounts sum to 0, whatever is owed on those accounts.
C5_ZeroLimitGivesZero ==
    (/\ out.op = "calculateCreditUtilization"
     /\ (CreditIndices = {} \/ SumLimits(CreditIndices) = 0))
    => out.value = 0

\* credit accounts exist, their limits sum to 0 and one of them owes a positive balance
C5_Witness ==
    /\ out.op = "calculateCreditUtilization"
    /\ CreditIndices # {}
    /\ SumLimits(CreditIndices) = 0
    /\ \E i \in CreditIndices : BalanceAt(i) > 0
    /\ out.value = 0

\* C6: when the total credit limit is positive the utilization is
\* 100 * (sum over credit accounts of max(0, balance)) / (sum over credit accounts
\* of limit); debit accounts contribute nothing and the result is never negative.
C6_UtilizationFormula ==
    (/\ out.op = "calculateCreditUtilization"
     /\ SumLimits(CreditIndices) > 0)
    => /\ out.value = (100 * SumOwed(CreditIndices)) \div SumLimits(CreditIndices)
       /\ out.value >= 0

\* one credit account is overpaid, another owes, and the snapshot's result is positive
C6_Witness ==
    /\ out.op = "calculateCreditUtilization"
    /\ SumLimits(CreditIndices) > 0
    /\ \E i \in CreditIndices : BalanceAt(i) < 0
    /\ \E i \in CreditIndices : BalanceAt(i) > 0
    /\ out.value > 0

\* C7: every place that reports the 'Credit Used' percentage returns, for the same
\* snapshot, the value the dashboard computes from the APR-compounded balances.
C7_CreditUsedAgrees ==
    /\ out.op = "getBusinessMetrics"
       => out.value.creditUsed = calculateCreditUtilization(accounts, transactions, now)
    /\ out.op = "calculateCreditUtilizationV3"
       => out.value = calculateCreditUtilization(accounts, transactions, now)

-----------------------------------------------------------------------------
(* Projection Engine applied to snapshots                                  *)

Scenarios == {"current", "optimal", "aggressive"}

Timeframes == {"6m", "1y", "2y"}

ProjAccountSnapshots ==
    {<<>>}
    \cup {<<AccountRec("a1", t, 1000, apr)>> : t \in Types, apr \in {0, 12}}
    \cup {<<AccountRec("a1", t, 1000, apr), AccountRec("a2", t2, 1000, 12)>> :
            t \in Types, apr \in {0, 12}, t2 \in Types}

\* a1 carries transactions of 500 dated at the evaluation instant, a2 transactions of
\* 2000 dated one calendar month back
ProjTxChoices ==
    {[accountId |-> "a1", amount |-> 500, type |-> t, date |-> Jan31] : t \in Types}
    \cup {[accountId |-> "a2", amount |-> 2000, type |-> t, date |-> Dec31] : t \in Types}

InitProj ==
    /\ accounts \in ProjAccountSnapshots
    /\ transactions \in TxSnapshots(ProjTxChoices)
    /\ now = Jan31
    /\ UiInit
    /\ LifeInit
    /\ StoreInit

\* the scenario selector: setProjectionScenario(e.target.value)
SetProjectionScenario(scenario) ==
    /\ projectionScenario' = scenario
    /\ out' = NoOut
    /\ UNCHANGED <<dataVars, now, lifeVars, selectedAccount, timeframe>>

\* the timeframe selector: setTimeframe(e.target.value)
SetTimeframe(tf) ==
    /\ timeframe' = tf
    /\ out' = NoOut
    /\ UNCHANGED <<dataVars, now, lifeVars, projectionScenario, selectedAccount>>

\* the account selector: setSelectedAccount(e.target.value), 'all' or a listed account
SetSelectedAccount(selected) ==
    /\ selected \in {"all"} \cup IdsOf(accounts)
    /\ selectedAccount' = selected
    /\ out' = NoOut
    /\ UNCHANGED <<dataVars, now, lifeVars, projectionScenario, timeframe>>

\* calculateProjections(projectionScenario) of the dashboard
CalcProjections ==
    /\ out' = [op |-> "calculateProjections", accountId |-> "", at |-> now,
               value |-> calculateProjections(accounts, transactions, now,
                                              projectionScenario, timeframe, selectedAccount)]
    /\ UNCHANGED <<dataVars, now, uiVars, lifeVars>>

\* calculateProjections(projectionScenario) of the dashboard with namespaced storage keys
CalcProjectionsV3 ==
    /\ out' = [op |-> "calculateProjectionsV3", accountId |-> "", at |-> now,
               value |-> calculateProjectionsV3(accounts, transactions, now,
                                                projectionScenario, timeframe, selectedAccount)]
    /\ UNCHANGED <<dataVars, now, uiVars, lifeVars>>

NextProj ==
    \/ \E scenario \in Scenarios : SetProjectionScenario(scenario)
    \/ \E tf \in Timeframes : SetTimeframe(tf)
    \/ \E selected \in {"all"} \cup AccountIds : SetSelectedAccount(selected)
    \/ CalcProjections
    \/ CalcProjectionsV3

SpecProj == InitProj /\ [][NextProj]_vars

-----------------------------------------------------------------------------
(* Properties of the Projection Engine                                     *)

\* the number of months a timeframe selection stands for
TimeframeMonths ==
    CASE timeframe = "6m" -> 6
      [] timeframe = "1y" -> 12
      [] timeframe = "2y" -> 24

\* C8: a projection has exactly timeframeMonths + 1 rows, indexed 0..timeframeMonths,
\* for timeframeMonths in {6, 12, 24}, every scenario, account filter and snapshot.
C8_RowCount ==
    out.op = "calculateProjections"
    => /\ Len(out.value) = TimeframeMonths + 1
       /\ \A k \in 0..TimeframeMonths :
             out.value[k + 1].month = (IF k = 0 THEN <<"Current">> ELSE <<"Month", k>>)

\* a two-year projection of one selected account under the aggressive scenario
C8_Witness ==
    /\ out.op = "calculateProjections"
    /\ timeframe = "2y"
    /\ projectionScenario = "aggressive"
    /\ selectedAccount = "a2"
    /\ Len(out.value) = 25
    /\ out.value[1].balance > 0

\* indices of the accounts that take part in a projection: credit accounts matching
\* the filter whose APR-compounded balance is positive
EligibleIndices ==
    {i \in 1..Len(accounts) :
        /\ (selectedAccount = "all" \/ accounts[i].id = selectedAccount)
        /\ accounts[i].accountType = "credit"
        /\ BalanceAt(i) > 0}

RECURSIVE SumBalances(_)
SumBalances(S) ==
    IF S = {} THEN 0
    ELSE LET i == CHOOSE j \in S : TRUE
         IN  BalanceAt(i) + SumBalances(S \ {i})

\* C9: row 0 of every projection has interest = 0 and a balance equal to the sum,
\* over the eligible accounts, of their APR-compounded balance at evaluation time.
C9_RowZeroIsCompoundedBalance ==
    out.op \in {"calculateProjections", "calculateProjectionsV3"}
    => /\ out.value[1].interest = 0
       /\ out.value[1].balance = SumBalances(EligibleIndices)

\* the snapshot without the account at index i
WithoutAccount(i) == SelectSeq(accounts, LAMBDA a : a.id # accounts[i].id)

\* C10: only credit accounts that match the filter and have a positive balance take
\* part in a projection: the snapshot with any other account removed projects to
\* the same rows, field by field.
C10_IneligibleAccountsChangeNothing ==
    out.op = "calculateProjections"
    => \A i \in (1..Len(accounts)) \ EligibleIndices :
          out.value = calculateProjections(WithoutAccount(i), transactions, now,
                                           projectionScenario, timeframe, selectedAccount)

\* a debit account with a positive balance sits next to an eligible credit account
C10_Witness ==
    /\ out.op = "calculateProjections"
    /\ selectedAccount = "all"
    /\ EligibleIndices # {}
    /\ \E i \in (1..Len(accounts)) \ EligibleIndices :
          /\ accounts[i].accountType = "debit"
          /\ BalanceAt(i) > 0
    /\ out.value[2].balance > 0

\* the present balance the evaluated projection starts from, for the account at index i
PresentBalance(i) ==
    IF out.op = "calculateProjectionsV3"
    THEN calculateBalanceV3(accounts, transactions, accounts[i].id, now)
    ELSE calculateBalance(accounts, transactions, accounts[i].id, now)

\* indices of the accounts taking part in the evaluated projection
Eligible ==
    {i \in 1..Len(accounts) :
        /\ (selectedAccount = "all" \/ accounts[i].id = selectedAccount)
        /\ accounts[i].accountType = "credit"
        /\ PresentBalance(i) > 0}

IsProjection == out.op \in {"calculateProjections", "calculateProjectionsV3"}

\* C11: when no account is eligible the projection still has timeframeMonths + 1
\* rows, and in every row balance, interest, minimumPayment, additionalPayment and
\* totalPayment are all 0.
C11_NoEligibleGivesZeroRows ==
    (IsProjection /\ Eligible = {})
    => /\ Len(out.value) = TimeframeMonths + 1
       /\ \A k \in 1..Len(out.value) :
             /\ out.value[k].balance = 0
             /\ out.value[k].interest = 0
             /\ out.value[k].minimumPayment = 0
             /\ out.value[k].additionalPayment = 0
             /\ out.value[k].totalPayment = 0

\* a one-year projection over a snapshot whose only credit account is overpaid
C11_Witness ==
    /\ out.op = "calculateProjections"
    /\ timeframe = "1y"
    /\ Eligible = {}
    /\ \E i \in 1..Len(accounts) :
          accounts[i].accountType = "credit" /\ PresentBalance(i) < 0
    /\ Len(out.value) = 13

\* one month of the payoff rule: b -> max(0, b + b*r - p), with r = apr/100/12
PayoffStep(b, apr, p) ==
    LET next == b + (b * apr) \div 1200 - p
    IN  IF next > 0 THEN next ELSE 0

\* the balance after k months of the payoff rule
RECURSIVE BalanceAfter(_, _, _, _)
BalanceAfter(b, apr, p, k) ==
    IF k = 0 THEN b ELSE PayoffStep(BalanceAfter(b, apr, p, k - 1), apr, p)

\* the interest charged over the first k months of the payoff rule
RECURSIVE InterestOver(_, _, _, _)
InterestOver(b, apr, p, k) ==
    IF k = 0 THEN 0
    ELSE InterestOver(b, apr, p, k - 1) + (BalanceAfter(b, apr, p, k - 1) * apr) \div 1200

\* the only eligible account's index, when exactly one account is eligible
TheEligible == CHOOSE i \in Eligible : TRUE

\* C12: for one eligible account with present balance B, rate r = apr/100/12 and
\* per-row payment p, row k reports as balance the result of applying k times the
\* step b -> max(0, b + b*r - p) to B, and as interest the sum of b*r over those k
\* steps; for B = 500, apr = 12 under 'current', row 1 has interest 5 and balance 480.
C12_RowIsIteratedPayoffStep ==
    (IsProjection /\ Cardinality(Eligible) = 1)
    => LET B == PresentBalance(TheEligible)
           apr == accounts[TheEligible].apr
       IN  /\ \A k \in 0..TimeframeMonths :
                 LET p == out.value[k + 1].totalPayment
                 IN  /\ out.value[k + 1].balance = BalanceAfter(B, apr, p, k)
                     /\ out.value[k + 1].interest = InterestOver(B, apr, p, k)
           /\ (B = 500 * Scale /\ apr = 12 /\ projectionScenario = "current")
              => /\ out.value[2].interest = 5 * Scale
                 /\ out.value[2].balance = 480 * Scale

\* the example of the claim: one eligible account owing 500 at 12% under 'current'
C12_Witness ==
    /\ out.op = "calculateProjections"
    /\ Cardinality(Eligible) = 1
    /\ PresentBalance(TheEligible) = 500 * Scale
    /\ accounts[TheEligible].apr = 12
    /\ projectionScenario = "current"
    /\ out.value[2].balance = 480 * Scale

\* the larger of 2% of B and 25
MinPaymentOf(B) ==
    IF (2 * B) \div 100 >= 25 * Scale THEN (2 * B) \div 100 ELSE 25 * Scale

\* the fraction of B, in percent, a scenario pays at least
ScenarioPercent(scenario) ==
    CASE scenario = "current" -> 0
      [] scenario = "optimal" -> 5
      [] scenario = "aggressive" -> 10

\* the payment of a scenario: the minimum payment, or the scenario's fraction if larger
PaymentOf(scenario, B) ==
    LET fraction == (ScenarioPercent(scenario) * B) \div 100
    IN  IF fraction > MinPaymentOf(B) THEN fraction ELSE MinPaymentOf(B)

RECURSIVE SumMinPayments(_)
SumMinPayments(S) ==
    IF S = {} THEN 0
    ELSE LET i == CHOOSE j \in S : TRUE
         IN  MinPaymentOf(PresentBalance(i)) + SumMinPayments(S \ {i})

RECURSIVE SumAdditional(_)
SumAdditional(S) ==
    IF S = {} THEN 0
    ELSE LET i == CHOOSE j \in S : TRUE
         IN  (PaymentOf(projectionScenario, PresentBalance(i)) - MinPaymentOf(PresentBalance(i)))
             + SumAdditional(S \ {i})

\* C13: with baseMinPayment = max(0.02 x B, 25) and the payment baseMinPayment under
\* 'current', max(baseMinPayment, 0.05 x B) under 'optimal' and
\* max(baseMinPayment, 0.10 x B) under 'aggressive', every row reports
\* minimumPayment = sum of baseMinPayment over the eligible accounts,
\* additionalPayment = sum of (payment - baseMinPayment) >= 0, which is exactly 0
\* under 'current', and totalPayment = minimumPayment + additionalPayment.
C13_PaymentsPerScenario ==
    IsProjection
    => \A k \in 1..Len(out.value) :
          /\ out.value[k].minimumPayment = SumMinPayments(Eligible)
          /\ out.value[k].additionalPayment = SumAdditional(Eligible)
          /\ out.value[k].additionalPayment >= 0
          /\ projectionScenario = "current" => out.value[k].additionalPayment = 0
          /\ out.value[k].totalPayment
                = out.value[k].minimumPayment + out.value[k].additionalPayment

\* two eligible accounts under 'optimal': one at the floor of 25 (B = 500), one above
\* it (B of 2000 or more)
C13_Witness ==
    /\ out.op = "calculateProjections"
    /\ projectionScenario = "optimal"
    /\ Cardinality(Eligible) = 2
    /\ \E i \in Eligible : MinPaymentOf(PresentBalance(i)) = 25 * Scale
    /\ \E i \in Eligible : MinPaymentOf(PresentBalance(i)) > 25 * Scale
    /\ out.value[1].minimumPayment > 50 * Scale
    /\ out.value[1].additionalPayment > 0

\* the projection the evaluated dashboard returns for the same snapshot, filter and
\* timeframe under another scenario
ProjectionUnder(scenario) ==
    IF out.op = "calculateProjectionsV3"
    THEN calculateProjectionsV3(accounts, transactions, now, scenario, timeframe, selectedAccount)
    ELSE calculateProjections(accounts, transactions, now, scenario, timeframe, selectedAccount)

\* C14: for identical snapshots, filter and timeframe, at every row index the
\* totalPayment under 'aggressive' is >= the one under 'optimal', which is >= the one
\* under 'current'.
C14_ScenarioMonotone ==
    IsProjection
    => LET current == ProjectionUnder("current")
           optimal == ProjectionUnder("optimal")
           aggressive == ProjectionUnder("aggressive")
       IN  /\ out.value \in {current, optimal, aggressive}
           /\ Len(optimal) = Len(current) /\ Len(aggressive) = Len(current)
           /\ \A k \in 1..Len(current) :
                 /\ aggressive[k].totalPayment >= optimal[k].totalPayment
                 /\ optimal[k].totalPayment >= current[k].totalPayment

\* an aggressive projection whose payment is strictly above the optimal one, which is
\* strictly above the current one
C14_Witness ==
    /\ out.op = "calculateProjections"
    /\ projectionScenario = "aggressive"
    /\ out.value[3].totalPayment > ProjectionUnder("optimal")[3].totalPayment
    /\ ProjectionUnder("optimal")[3].totalPayment > ProjectionUnder("current")[3].totalPayment

\* C15: the balance of every row is >= 0, and paid-off is absorbing: for a single
\* eligible account, once a row has balance 0 every later row has balance 0 and the
\* same cumulative interest, while minimumPayment and totalPayment of those rows
\* still report the full payment amounts.
C15_PaidOffIsAbsorbing ==
    IsProjection
    => /\ \A k \in 1..Len(out.value) : out.value[k].balance >= 0
       /\ Cardinality(Eligible) = 1
          => \A k \in 1..Len(out.value) : \A j \in k..Len(out.value) :
                out.value[k].balance = 0
                => /\ out.value[j].balance = 0
                   /\ out.value[j].interest = out.value[k].interest
                   /\ out.value[j].minimumPayment = MinPaymentOf(PresentBalance(TheEligible))
                   /\ out.value[j].totalPayment
                         = PaymentOf(projectionScenario, PresentBalance(TheEligible))
                   /\ out.value[j].totalPayment > 0

\* an account at 12% that is paid off before the last row of the projection
C15_Witness ==
    /\ out.op = "calculateProjections"
    /\ Cardinality(Eligible) = 1
    /\ accounts[TheEligible].apr = 12
    /\ \E k \in 2..(Len(out.value) - 1) :
          /\ out.value[k - 1].balance > 0
          /\ out.value[k].balance = 0
          /\ out.value[k].interest > 0
          /\ out.value[k + 1].totalPayment > 0

\* C28: restarting each row from the present balance equals one advancing
\* simulation with the payment fixed at its initial value: for a single eligible
\* account, balance(row k+1) = max(0, balance(row k) * (1 + r) - p) and
\* interest(row k+1) = interest(row k) + balance(row k) * r for every
\* k < timeframeMonths.
C28_RowsChain ==
    (IsProjection /\ Cardinality(Eligible) = 1)
    => LET apr == accounts[TheEligible].apr
           p == PaymentOf(projectionScenario, PresentBalance(TheEligible))
       IN  \A k \in 0..(TimeframeMonths - 1) :
              /\ out.value[k + 2].balance = PayoffStep(out.value[k + 1].balance, apr, p)
              /\ out.value[k + 2].interest
                    = out.value[k + 1].interest + (out.value[k + 1].balance * apr) \div 1200

\* a single account at 12% whose balance above the floor case (B >= 2000) falls from
\* row to row while interest accumulates
C28_Witness ==
    /\ out.op = "calculateProjections"
    /\ Cardinality(Eligible) = 1
    /\ accounts[TheEligible].apr = 12
    /\ PresentBalance(TheEligible) >= 2000 * Scale
    /\ out.value[3].balance > 0
    /\ out.value[3].balance < out.value[2].balance
    /\ out.value[3].interest > out.value[2].interest

\* C29: within one projection minimumPayment, additionalPayment and totalPayment are
\* the same in every row, also in the rows in which every account has reached
\* balance 0.
C29_PaymentsSameInEveryRow ==
    IsProjection
    => \A k \in 1..Len(out.value) :
          /\ out.value[k].minimumPayment = out.value[1].minimumPayment
          /\ out.value[k].additionalPayment = out.value[1].additionalPayment
          /\ out.value[k].totalPayment = out.value[1].totalPayment

\* a projection with an additional payment whose last row is paid off
C29_Witness ==
    /\ out.op = "calculateProjections"
    /\ Eligible # {}
    /\ out.value[1].additionalPayment > 0
    /\ out.value[Len(out.value)].balance = 0
    /\ out.value[Len(out.value)].totalPayment = out.value[1].totalPayment

-----------------------------------------------------------------------------
(* Projection Engine over the APRs the account form accepts                *)

\* the APR field is a number input without bounds
AprChoices == {-12, 0, 24, 36}

AprAccountSnapshots ==
    {<<AccountRec("a1", "credit", 1000, apr)>> : apr \in AprChoices}
    \cup {<<AccountRec("a1", "credit", 1000, apr), AccountRec("a2", "credit", 1000, apr2)>> :
            apr \in AprChoices, apr2 \in {0, 24}}

InitProjApr ==
    /\ accounts \in AprAccountSnapshots
    /\ transactions \in TxSnapshots(ProjTxChoices)
    /\ now = Jan31
    /\ UiInit
    /\ LifeInit
    /\ StoreInit

SpecProjApr == InitProjApr /\ [][NextProj]_vars

\* C30: if every eligible account has apr <= 24, then under every scenario the
\* projected balance is non-increasing in the row index and the cumulative interest
\* is non-decreasing in the row index.
C30_MonotoneUnderLowApr ==
    (IsProjection /\ \A i \in Eligible : accounts[i].apr <= 24)
    => \A k \in 1..(Len(out.value) - 1) :
          /\ out.value[k + 1].balance <= out.value[k].balance
          /\ out.value[k + 1].interest >= out.value[k].interest

-----------------------------------------------------------------------------
(* The calculation core evaluated at different instants                    *)

CoreAccountSnapshots ==
    {<<>>}
    \cup {<<AccountRec("a1", t, 1000, apr)>> : t \in Types, apr \in {0, 12}}
    \cup {<<AccountRec("a1", t, 1000, apr), AccountRec("a2", "credit", 1000, 12)>> :
            t \in Types, apr \in {0, 12}}

\* transactions of 500 on either account, dated at the first or at the second instant
CoreTxChoices ==
    [accountId : AccountIds, amount : {500}, type : Types, date : {Dec31, Jan31}]

InitCore ==
    /\ accounts \in CoreAccountSnapshots
    /\ transactions \in TxSnapshots(CoreTxChoices)
    /\ now = Dec31
    /\ UiInit
    /\ LifeInit
    /\ StoreInit

\* time passes: new Date() returns a later instant
Tick(date) ==
    /\ Stamp(date) > Stamp(now)
    /\ now' = date
    /\ UNCHANGED <<dataVars, uiVars, lifeVars, out>>

\* the 'Total Balance' card of the dashboard
CalcTotalBalance ==
    /\ out' = [op |-> "calculateTotalBalance", accountId |-> "", at |-> now,
               value |-> TotalBalance(accounts, transactions, now)]
    /\ UNCHANGED <<dataVars, now, uiVars, lifeVars>>

NextCore ==
    \/ \E date \in {Dec31, Jan31} : Tick(date)
    \/ \E accountId \in AccountIds : CalcBalance(accountId)
    \/ \E accountId \in AccountIds : CalcBalanceV3(accountId)
    \/ CalcTotalBalance
    \/ CalcCreditUtilization
    \/ CalcCreditUtilizationV3
    \/ ChatBusinessMetrics
    \/ CalcProjections
    \/ CalcProjectionsV3

SpecCore == InitCore /\ [][NextCore]_vars

-----------------------------------------------------------------------------
(* Properties of the calculation core as a function of its inputs          *)

\* C16: two evaluations of project, balanceAsOf or creditUtilizationPercent with
\* identical account and transaction snapshots, scenario, timeframe and filter give
\* identical output, whatever the instants at which the two calls are made.
C16_SameInputsSameOutput ==
    [][(/\ out.op # "none"
        /\ out'.op = out.op
        /\ out'.accountId = out.accountId
        /\ accounts' = accounts
        /\ transactions' = transactions
        /\ uiVars' = uiVars)
       => out'.value = out.value]_vars

\* C17: evaluating balanceAsOf, creditUtilizationPercent or project leaves the
\* accounts collection, the transactions collection (contents and order) and the
\* persisted store unchanged.
C17_EvaluationChangesNoData ==
    [][out'.op # "none" /\ now' = now
       => /\ accounts' = accounts
          /\ transactions' = transactions
          /\ storage' = storage]_vars

\* a projection has been evaluated over two accounts and two different transactions
\* that are also in the store
C17_Witness ==
    /\ out.op = "calculateProjections"
    /\ Len(accounts) = 2
    /\ Len(transactions) >= 2
    /\ Stamp(transactions[1].date) > Stamp(transactions[2].date)
    /\ storage = Persisted(accounts, transactions)
    /\ out.value[1].balance > 0

\* the transactions whose accountId matches an account of the snapshot
WithoutDangling == SelectSeq(transactions, LAMBDA t : t.accountId \in IdsOf(accounts))

\* C18: a transaction whose accountId matches no account of the snapshot is tolerated
\* and contributes to no total: every account's balance, the portfolio total balance,
\* the credit utilization and every projection row are what they are without it.
C18_DanglingContributesNothing ==
    /\ out.op = "calculateBalance"
       => out.value = calculateBalance(accounts, WithoutDangling, out.accountId, out.at)
    /\ out.op = "calculateBalanceV3"
       => out.value = calculateBalanceV3(accounts, WithoutDangling, out.accountId, out.at)
    /\ out.op = "calculateTotalBalance"
       => out.value = TotalBalance(accounts, WithoutDangling, out.at)
    /\ out.op = "calculateCreditUtilization"
       => out.value = calculateCreditUtilization(accounts, WithoutDangling, out.at)
    /\ out.op = "calculateCreditUtilizationV3"
       => out.value = calculateCreditUtilizationV3(accounts, WithoutDangling, out.at)
    /\ out.op = "getBusinessMetrics"
       => out.value = getBusinessMetrics(accounts, WithoutDangling, out.at)
    /\ out.op = "calculateProjections"
       => out.value = calculateProjections(accounts, WithoutDangling, out.at,
                                           projectionScenario, timeframe, selectedAccount)
    /\ out.op = "calculateProjectionsV3"
       => out.value = calculateProjectionsV3(accounts, WithoutDangling, out.at,
                                             projectionScenario, timeframe, selectedAccount)

\* the total balance of a snapshot that holds an account with transactions and a
\* transaction, dated before the evaluation, of an account that is not there
C18_Witness ==
    /\ out.op = "calculateTotalBalance"
    /\ accounts # <<>>
    /\ \E i \in 1..Len(transactions) :
          /\ transactions[i].accountId \notin IdsOf(accounts)
          /\ Stamp(transactions[i].date) <= Stamp(out.at)
    /\ out.value # 0

-----------------------------------------------------------------------------
(* The store: dashboard forms, chat commands and load paths                *)

\* what can be typed into a numeric field or after 'amount=', 'limit=', 'apr='
AmountEntries == {"", "-50", "500"}

\* the two credit fields of an account: both left empty, or both filled in
CreditEntries == {[limit |-> "", apr |-> ""], [limit |-> "1000", apr |-> "12"]}

\* what can be typed after 'type=' in a chat command ("" when the key is left out)
TypeEntries == {"", "debit", "credit", "transfer"}

AccountTypeEntries == {"", "debit", "credit", "savings"}

\* Number(text) for the entries above
Number(text) ==
    CASE text = "" -> 0
      [] text = "-50" -> -50
      [] text = "12" -> 12
      [] text = "500" -> 500
      [] text = "1000" -> 1000

\* the ids carried by a sequence of transactions
TxIdsOf(txs) == {txs[i].id : i \in 1..Len(txs)}

\* the account ids no account in memory or in storage carries
UnusedAccountIds == AccountIds \ (IdsOf(accounts) \cup IdsOf(storage.accounts))

\* Date.now().toString() for a new account: an id no stored account has
NewAccountId == CHOOSE id \in UnusedAccountIds : TRUE

\* Date.now().toString() for a new transaction: an id no transaction in memory or storage has
NewTransactionId ==
    CHOOSE id \in 1..(Len(transactions) + Len(storage.transactions) + 1) :
        /\ id \notin TxIdsOf(transactions) \cup TxIdsOf(storage.transactions)
        /\ \A other \in 1..id : other = id \/ other \in TxIdsOf(transactions)
                                              \cup TxIdsOf(storage.transactions)

\* the place of t in a list sorted newest first: behind every entry that is not older
RECURSIVE InsertByDate(_, _)
InsertByDate(sorted, t) ==
    IF sorted = <<>> THEN <<t>>
    ELSE IF Stamp(Head(sorted).date) >= Stamp(t.date)
         THEN <<Head(sorted)>> \o InsertByDate(Tail(sorted), t)
         ELSE <<t>> \o sorted

\* newTransactions.sort((a, b) => new Date(b.date) - new Date(a.date)), a stable sort
RECURSIVE SortByDate(_)
SortByDate(txs) ==
    IF txs = <<>> THEN <<>>
    ELSE InsertByDate(SortByDate(SubSeq(txs, 1, Len(txs) - 1)), txs[Len(txs)])

\* what can be typed into a name field
NameEntries == {"", "card"}

\* handleSaveAccount for a new account, followed by the persist effect
SaveAccount(name, accountType, limit, apr) ==
    /\ name # ""
    /\ UnusedAccountIds # {}
    /\ accounts' = Append(accounts, [id |-> NewAccountId, name |-> name,
                                     accountType |-> accountType,
                                     limit |-> Number(limit), apr |-> Number(apr)])
    /\ storage' = Persisted(accounts', transactions)
    /\ UNCHANGED <<transactions, now, uiVars, lifeVars, out>>

\* handleSaveTransaction for a new transaction, followed by the persist effect; the
\* account is one of the options of the form's selector, 'Select Account' returns early
SaveTransaction(accountId, amount, type) ==
    /\ accountId \in IdsOf(accounts)
    /\ amount # ""
    /\ Len(transactions) < MaxTx
    /\ transactions' = SortByDate(Append(transactions,
                            [id |-> NewTransactionId, accountId |-> accountId,
                             amount |-> Number(amount), type |-> type, date |-> now]))
    /\ storage' = Persisted(accounts, transactions')
    /\ UNCHANGED <<accounts, now, uiVars, lifeVars, out>>

\* chat command 'add account: name=.., type=.., limit=.., apr=..': loadData, saveData
ChatAddAccount(name, type, limit, apr) ==
    /\ name # ""
    /\ type # ""
    /\ UnusedAccountIds # {}
    /\ storage' = [storage EXCEPT !.accounts =
                       Append(@, [id |-> NewAccountId, name |-> name, accountType |-> type,
                                  limit |-> IF limit # "" THEN Number(limit) ELSE 0,
                                  apr |-> IF apr # "" THEN Number(apr) ELSE 0])]
    /\ UNCHANGED <<accounts, transactions, now, uiVars, lifeVars, out>>

\* chat command 'add transaction: accountId=.., amount=.., type=..': loadData, saveData
ChatAddTransaction(accountid, amount, type) ==
    /\ accountid # ""
    /\ amount # ""
    /\ Len(storage.transactions) < MaxTx
    /\ storage' = [storage EXCEPT !.transactions =
                       Append(@, [id |-> NewTransactionId, accountId |-> accountid,
                                  amount |-> Number(amount),
                                  type |-> IF type # "" THEN type ELSE "debit",
                                  date |-> now])]
    /\ UNCHANGED <<accounts, transactions, now, uiVars, lifeVars, out>>

\* the dashboard is opened again: load effect with validation, then the persist effect
Load ==
    /\ accounts' = SelectSeq(storage.accounts,
                             LAMBDA a : a.id # "" /\ a.name # "" /\ a.accountType \in Types)
    /\ transactions' = SelectSeq(storage.transactions,
                                 LAMBDA t : t.id # 0 /\ t.accountId # "")
    /\ storage' = Persisted(accounts', transactions')
    /\ UNCHANGED <<now, uiVars, lifeVars, out>>

\* the later dashboard is opened again: load effect without validation, persist effect
LoadV2 ==
    /\ accounts' = storage.accounts
    /\ transactions' = storage.transactions
    /\ storage' = Persisted(accounts', transactions')
    /\ UNCHANGED <<now, uiVars, lifeVars, out>>

\* first visit: nothing stored, nothing in memory
InitStore ==
    /\ accounts = <<>>
    /\ transactions = <<>>
    /\ now = Dec31
    /\ UiInit
    /\ LifeInit
    /\ StoreInit

NextStore ==
    \/ \E name \in NameEntries, accountType \in Types, credit \in CreditEntries :
            SaveAccount(name, accountType, credit.limit, credit.apr)
    \/ \E accountId \in AccountIds, amount \in AmountEntries, type \in Types :
            SaveTransaction(accountId, amount, type)
    \/ \E name \in NameEntries, type \in AccountTypeEntries, credit \in CreditEntries :
            ChatAddAccount(name, type, credit.limit, credit.apr)
    \/ \E accountid \in {""} \cup AccountIds, amount \in AmountEntries, type \in TypeEntries :
            ChatAddTransaction(accountid, amount, type)
    \/ Load
    \/ LoadV2

SpecStore == InitStore /\ [][NextStore]_vars

\* the transactions held in memory or in storage
StoredTransactions ==
    {transactions[i] : i \in 1..Len(transactions)}
    \cup {storage.transactions[i] : i \in 1..Len(storage.transactions)}

\* the accounts held in memory or in storage
StoredAccounts ==
    {accounts[i] : i \in 1..Len(accounts)}
    \cup {storage.accounts[i] : i \in 1..Len(storage.accounts)}

\* C19: in every reachable state of the store, after any sequence of transaction
\* saves from the dashboard form and 'add transaction:' chat commands, every stored
\* transaction has amount >= 0.
C19_AmountsNonNegative == \A t \in StoredTransactions : t.amount >= 0

\* C20: in every reachable state of the store every account has accountType in
\* {debit, credit} and every transaction has type in {debit, credit}.
C20_StoredTypesValid ==
    /\ \A a \in StoredAccounts : a.accountType \in Types
    /\ \A t \in StoredTransactions : t.type \in Types

\* C22: in every reachable state of the store every account has limit >= 0 and every
\* account whose accountType is debit has limit = 0.
C22_LimitsValid ==
    \A a \in StoredAccounts : a.limit >= 0 /\ (a.accountType = "debit" => a.limit = 0)

\* the records of a sequence
RecordsOf(records) == {records[i] : i \in 1..Len(records)}

\* C26: a record the chat has added to the store is not lost: no later save or persist
\* step of the dashboard writes a store that lacks a record the store held before the
\* step (no step of this specification deletes a record).
C26_ChatRecordsKept ==
    [][/\ RecordsOf(storage.accounts) \subseteq RecordsOf(storage'.accounts)
       /\ RecordsOf(storage.transactions) \subseteq RecordsOf(storage'.transactions)
      ]_vars

-----------------------------------------------------------------------------
(* Record lifecycle: creation and deletion through the dashboard forms and *)
(* the chat of the integrated application (App mounts the dashboard and    *)
(* the chat side by side), with ids taken from the clock                   *)

\* the last millisecond modelled
MaxClock == 5

\* the ids Date.now().toString() can produce
ClockIds == {ToString(ms) : ms \in 1..MaxClock}

\* an id source that counts the stored records instead of reading the clock
DateNowStringByCount == ToString(Len(accounts) + Len(transactions) + 1)

\* Date.now().toString()
DateNowString == ToString(clock)

\* editingItem of the account form; id is "" for a new account
AccountForms(ids) ==
    [id : ids, name : NameEntries, accountType : {"debit", "credit"},
     limit : {"", "1000"}, apr : {"", "12"}]

\* handleSaveAccount, followed by the persist effect; a new account takes its id from
\* the clock, and the next operation happens at a later millisecond
handleSaveAccount(editingItem) ==
    /\ editingItem.name # ""
    /\ editingItem.id = "" => clock < MaxClock
    /\ LET account == [id |-> IF editingItem.id # "" THEN editingItem.id ELSE DateNowString,
                       name |-> editingItem.name,
                       accountType |-> IF editingItem.accountType # ""
                                       THEN editingItem.accountType ELSE "debit",
                       limit |-> Number(editingItem.limit),
                       apr |-> Number(editingItem.apr)]
       IN  accounts' = IF editingItem.id # ""
                       THEN [i \in 1..Len(accounts) |->
                                IF accounts[i].id = account.id THEN account ELSE accounts[i]]
                       ELSE Append(accounts, account)
    /\ clock' = IF editingItem.id = "" THEN clock + 1 ELSE clock
    /\ storage' = Persisted(accounts', transactions)
    /\ UNCHANGED <<transactions, now, uiVars, out, showDeleteConfirm, deleteItem, deleteType,
                   mounted, initialized, effects, queued, peer, inbox, retired>>

\* the transaction handleSaveTransaction builds from editingItem; date is <<>> when
\* editingItem carries none
TransactionOf(editingItem) ==
    [id |-> IF editingItem.id # "" THEN editingItem.id ELSE DateNowString,
     accountId |-> editingItem.accountId,
     amount |-> Number(editingItem.amount),
     type |-> IF editingItem.type # "" THEN editingItem.type ELSE "debit",
     date |-> IF editingItem.date # <<>> THEN editingItem.date[1] ELSE now]

\* handleSaveTransaction of the first two dashboards, followed by the persist effect
handleSaveTransaction(editingItem) ==
    /\ editingItem.accountId # ""
    /\ editingItem.amount # ""
    /\ editingItem.id = "" => (clock < MaxClock /\ Len(transactions) < MaxTx)
    /\ LET transaction == TransactionOf(editingItem)
       IN  transactions' =
               SortByDate(IF editingItem.id # ""
                          THEN [i \in 1..Len(transactions) |->
                                   IF transactions[i].id = transaction.id
                                   THEN transaction ELSE transactions[i]]
                          ELSE Append(transactions, transaction))
    /\ clock' = IF editingItem.id = "" THEN clock + 1 ELSE clock
    /\ storage' = Persisted(accounts, transactions')
    /\ UNCHANGED <<accounts, now, uiVars, out, showDeleteConfirm, deleteItem, deleteType,
                   mounted, initialized, effects, queued, peer, inbox, retired>>

\* handleSaveTransaction of the third dashboard: setTransactions([...transactions,
\* newTransaction]), followed by the persist effect
handleSaveTransactionV3(editingItem) ==
    /\ editingItem.accountId # ""
    /\ editingItem.amount # ""
    /\ Len(transactions) < MaxTx
    /\ editingItem.id = "" => clock < MaxClock
    /\ transactions' = Append(transactions, TransactionOf(editingItem))
    /\ clock' = IF editingItem.id = "" THEN clock + 1 ELSE clock
    /\ storage' = Persisted(accounts, transactions')
    /\ UNCHANGED <<accounts, now, uiVars, out, showDeleteConfirm, deleteItem, deleteType,
                   mounted, initialized, effects, queued, peer, inbox, retired>>

\* AddAccountWidget.handleSubmit: loadData, saveData, then the financeDataUpdated event,
\* on which the dashboard runs loadData and its persist effect
handleSubmit(name, accountType, limit, apr) ==
    /\ name # ""
    /\ accountType # ""
    /\ clock < MaxClock
    /\ storage' = [storage EXCEPT !.accounts =
                       Append(@, [id |-> DateNowString, name |-> name,
                                  accountType |-> accountType,
                                  limit |-> IF accountType = "credit" THEN Number(limit) ELSE 0,
                                  apr |-> IF accountType = "credit" THEN Number(apr) ELSE 0])]
    /\ accounts' = storage'.accounts
    /\ transactions' = storage'.transactions
    /\ clock' = clock + 1
    /\ UNCHANGED <<now, uiVars, out, showDeleteConfirm, deleteItem, deleteType,
                   mounted, initialized, effects, queued, peer, inbox, retired>>

\* handleCommand of the later chat for 'add transaction: accountId=.., amount=..,
\* type=..': loadData, saveData, then the financeDataUpdated event
handleCommand(accountid, amount, type) ==
    /\ accountid # ""
    /\ amount # ""
    /\ clock < MaxClock
    /\ Len(storage.transactions) < MaxTx
    /\ storage' = [storage EXCEPT !.transactions =
                       Append(@, [id |-> DateNowString, accountId |-> accountid,
                                  amount |-> Number(amount),
                                  type |-> IF type # "" THEN type ELSE "debit",
                                  date |-> now])]
    /\ accounts' = storage'.accounts
    /\ transactions' = storage'.transactions
    /\ clock' = clock + 1
    /\ UNCHANGED <<now, uiVars, out, showDeleteConfirm, deleteItem, deleteType,
                   mounted, initialized, effects, queued, peer, inbox, retired>>

\* initiateDelete(type, id), called by the Delete button of a listed record
initiateDelete(type, id) ==
    /\ ~showDeleteConfirm
    /\ \/ type = "account" /\ id \in IdsOf(accounts)
       \/ type = "transaction" /\ id \in TxIdsOf(transactions)
    /\ deleteType' = type
    /\ deleteItem' = id
    /\ showDeleteConfirm' = TRUE
    /\ UNCHANGED <<dataVars, now, uiVars, out, mounted, initialized, effects, queued,
                   peer, inbox, clock, retired>>

\* the ids that leave the store when the pending delete is confirmed
Removed ==
    [accounts |-> IF deleteType = "account" THEN {deleteItem} \cap IdsOf(accounts) ELSE {},
     transactions |->
        IF deleteType = "account"
        THEN {transactions[i].id : i \in {j \in 1..Len(transactions) :
                                            transactions[j].accountId = deleteItem}}
        ELSE {deleteItem} \cap TxIdsOf(transactions)]

\* a confirmation that removes the account and keeps its transactions
handleDeleteKeepingTransactions ==
    /\ showDeleteConfirm
    /\ accounts' = SelectSeq(accounts, LAMBDA a : a.id # deleteItem)
    /\ transactions' = transactions
    /\ storage' = Persisted(accounts', transactions')
    /\ retired' = [retired EXCEPT !.accounts = @ \cup Removed.accounts]
    /\ showDeleteConfirm' = FALSE
    /\ deleteItem' = ""
    /\ deleteType' = ""
    /\ out' = [op |-> "handleDelete", accountId |-> deleteItem, at |-> now, value |-> 0]
    /\ UNCHANGED <<now, uiVars, mounted, initialized, effects, queued, peer, inbox, clock>>

\* handleDelete, the Delete button of the confirmation modal, followed by the persist
\* effect
handleDelete ==
    /\ showDeleteConfirm
    /\ IF deleteType = "account"
       THEN /\ transactions' = SelectSeq(transactions, LAMBDA t : t.accountId # deleteItem)
            /\ accounts' = SelectSeq(accounts, LAMBDA a : a.id # deleteItem)
       ELSE IF deleteType = "transaction"
       THEN /\ transactions' = SelectSeq(transactions, LAMBDA t : t.id # deleteItem)
            /\ accounts' = accounts
       ELSE UNCHANGED <<accounts, transactions>>
    /\ storage' = Persisted(accounts', transactions')
    /\ retired' = [accounts |-> retired.accounts \cup Removed.accounts,
                   transactions |-> retired.transactions \cup Removed.transactions]
    /\ showDeleteConfirm' = FALSE
    /\ deleteItem' = ""
    /\ deleteType' = ""
    /\ out' = [op |-> "handleDelete", accountId |-> deleteItem, at |-> now, value |-> 0]
    /\ UNCHANGED <<now, uiVars, mounted, initialized, effects, queued, peer, inbox, clock>>

\* the Cancel button of the confirmation modal
CancelDelete ==
    /\ showDeleteConfirm
    /\ showDeleteConfirm' = FALSE
    /\ deleteItem' = ""
    /\ deleteType' = ""
    /\ out' = [op |-> "cancelDelete", accountId |-> deleteItem, at |-> now, value |-> 0]
    /\ UNCHANGED <<dataVars, now, uiVars, mounted, initialized, effects, queued,
                   peer, inbox, clock, retired>>

\* first visit of the integrated application: nothing stored, nothing in memory
InitIds ==
    /\ accounts = <<>>
    /\ transactions = <<>>
    /\ now = Dec31
    /\ UiInit
    /\ LifeInit
    /\ StoreInit

\* the modal of the confirmation covers the page: while it is shown, the only buttons
\* are Delete and Cancel
NextIds ==
    \/ /\ ~showDeleteConfirm
       /\ handleSaveAccount([id |-> "", name |-> "card", accountType |-> "credit",
                             limit |-> "1000", apr |-> "12"])
    \/ \E accountId \in ClockIds :
            /\ ~showDeleteConfirm
            /\ accountId \in IdsOf(accounts)
            /\ handleSaveTransaction([id |-> "", accountId |-> accountId, amount |-> "500",
                                      type |-> "credit", date |-> <<>>])
    \/ \E accountId \in ClockIds :
            /\ ~showDeleteConfirm
            /\ accountId \in IdsOf(accounts)
            /\ handleSaveTransactionV3([id |-> "", accountId |-> accountId, amount |-> "500",
                                        type |-> "credit", date |-> <<>>])
    \/ /\ ~showDeleteConfirm
       /\ handleSubmit("card", "credit", "1000", "12")
    \/ \E accountid \in ClockIds :
            /\ ~showDeleteConfirm
            /\ handleCommand(accountid, "500", "credit")
    \/ \E type \in {"account", "transaction"}, id \in ClockIds : initiateDelete(type, id)
    \/ handleDelete
    \/ CancelDelete

SpecIds == InitIds /\ [][NextIds]_vars

\* no two records of the sequence carry the same id
UniqueIds(records) ==
    \A i, j \in 1..Len(records) : records[i].id = records[j].id => i = j

C23_DeleteCascadesCancelKeeps ==
    [][/\ (showDeleteConfirm /\ deleteType = "account" /\ out'.op = "handleDelete")
            => /\ accounts' = SelectSeq(accounts, LAMBDA a : a.id # deleteItem)
               /\ transactions' = SelectSeq(transactions, LAMBDA t : t.accountId # deleteItem)
               /\ storage' = Persisted(accounts', transactions')
       /\ (showDeleteConfirm /\ out'.op = "cancelDelete")
            => /\ UNCHANGED dataVars
               /\ ~showDeleteConfirm' /\ deleteItem' = "" /\ deleteType' = ""
       /\ (~showDeleteConfirm /\ showDeleteConfirm') => UNCHANGED dataVars
      ]_vars

\* an account with a transaction was deleted while another account with a transaction
\* of its own stays
C23_Witness ==
    /\ out.op = "handleDelete"
    /\ out.accountId \in retired.accounts
    /\ retired.transactions # {}
    /\ \E i \in 1..Len(transactions) : transactions[i].accountId \in IdsOf(accounts)

-----------------------------------------------------------------------------
(* Editing stored records through the Edit buttons of the dashboards       *)

\* the ids of the transactions as the handlers store them: strings
WithStringIds(txs) == [i \in 1..Len(txs) |-> [txs[i] EXCEPT !.id = ToString(@)]]

\* what can be typed into the Amount field of a transaction under edit
EditedAmounts == {"500", "1000"}

\* a store made by earlier saves: up to two accounts, up to MaxTx transactions
InitEdit ==
    /\ accounts \in CoreAccountSnapshots
    /\ transactions \in {WithStringIds(txs) : txs \in TxSnapshots(CoreTxChoices)}
    /\ now = Jan31
    /\ UiInit
    /\ LifeInit
    /\ StoreInit

\* Edit button of a listed record (setEditingItem(record)), changes typed into the
\* form, Save
NextEdit ==
    \/ \E editingItem \in AccountForms(AccountIds) :
            /\ editingItem.id \in IdsOf(accounts)
            /\ handleSaveAccount(editingItem)
    \/ \E i \in 1..MaxTx, amount \in EditedAmounts, type \in Types :
            /\ i <= Len(transactions)
            /\ handleSaveTransaction([id |-> transactions[i].id,
                                      accountId |-> transactions[i].accountId,
                                      amount |-> amount, type |-> type,
                                      date |-> <<transactions[i].date>>])
    \/ \E i \in 1..MaxTx, amount \in EditedAmounts, type \in Types :
            /\ i <= Len(transactions)
            /\ handleSaveTransactionV3([id |-> transactions[i].id,
                                        accountId |-> transactions[i].accountId,
                                        amount |-> amount, type |-> type,
                                        date |-> <<transactions[i].date>>])

SpecEdit == InitEdit /\ [][NextEdit]_vars

\* C27: saving an edited record replaces exactly the stored record with the same id:
\* the number of stored transactions and of stored accounts is unchanged, the same ids
\* are stored and no two records share an id.
C27_EditReplacesRecord ==
    [][/\ Len(transactions') = Len(transactions)
       /\ Len(accounts') = Len(accounts)
       /\ TxIdsOf(transactions') = TxIdsOf(transactions)
       /\ IdsOf(accounts') = IdsOf(accounts)
       /\ UniqueIds(transactions') /\ UniqueIds(storage'.transactions)
       /\ UniqueIds(accounts') /\ UniqueIds(storage'.accounts)
      ]_vars

-----------------------------------------------------------------------------
(* Mounting the dashboard: root.render, the load effect, the persist effect *)
(* and the re-render that applies the state the effects have set            *)

\* the three dashboards: part_000, part_001:1-866, part_001:867-1510
Versions == {"V1", "V2", "V3"}

\* the effects of a commit in the order React runs them; a development build under
\* React.StrictMode runs the effects of the first commit a second time
MountEffects(strict) ==
    IF strict THEN <<"load", "persist", "load", "persist">> ELSE <<"load", "persist">>

\* root.render(<React.StrictMode><App /></React.StrictMode>): the component renders
\* with its useState initial values
RootRender(version, strict) ==
    /\ mounted = "none"
    /\ mounted' = version
    /\ accounts' = <<>>
    /\ transactions' = <<>>
    /\ initialized' = FALSE
    /\ effects' = MountEffects(strict)
    /\ queued' = <<>>
    /\ UNCHANGED <<storage, now, uiVars, out, showDeleteConfirm, deleteItem, deleteType,
                   peer, inbox, clock, retired>>

\* load effect of the first dashboard: parse, validate, setAccounts, setTransactions
LoadEffect ==
    /\ mounted = "V1"
    /\ effects # <<>> /\ Head(effects) = "load"
    /\ queued' = Append(queued,
                    [accounts |-> SelectSeq(storage.accounts,
                                    LAMBDA a : a.id # "" /\ a.name # ""
                                               /\ a.accountType \in Types),
                     transactions |-> SelectSeq(storage.transactions,
                                        LAMBDA t : t.id # 0 /\ t.accountId # ""),
                     initialized |-> initialized])
    /\ effects' = Tail(effects)
    /\ UNCHANGED <<dataVars, now, uiVars, out, showDeleteConfirm, deleteItem, deleteType,
                   mounted, initialized, peer, inbox, clock, retired>>

\* load effect of the later dashboards: setAccounts, setTransactions, setInitialized(true)
LoadEffectV2 ==
    /\ mounted \in {"V2", "V3"}
    /\ effects # <<>> /\ Head(effects) = "load"
    /\ queued' = Append(queued, [accounts |-> storage.accounts,
                                 transactions |-> storage.transactions,
                                 initialized |-> TRUE])
    /\ effects' = Tail(effects)
    /\ UNCHANGED <<dataVars, now, uiVars, out, showDeleteConfirm, deleteItem, deleteType,
                   mounted, initialized, peer, inbox, clock, retired>>

\* persist effect of the first dashboard: setItem of the state of the render it closes
\* over
PersistEffect ==
    /\ mounted = "V1"
    /\ effects # <<>> /\ Head(effects) = "persist"
    /\ storage' = Persisted(accounts, transactions)
    /\ effects' = Tail(effects)
    /\ UNCHANGED <<accounts, transactions, now, uiVars, out, showDeleteConfirm, deleteItem,
                   deleteType, mounted, initialized, queued, peer, inbox, clock, retired>>

\* persist effect of the later dashboards: if (initialized) setItem
PersistEffectV2 ==
    /\ mounted \in {"V2", "V3"}
    /\ effects # <<>> /\ Head(effects) = "persist"
    /\ storage' = IF initialized THEN Persisted(accounts, transactions) ELSE storage
    /\ effects' = Tail(effects)
    /\ UNCHANGED <<accounts, transactions, now, uiVars, out, showDeleteConfirm, deleteItem,
                   deleteType, mounted, initialized, queued, peer, inbox, clock, retired>>

\* React applies the queued state updates in order and renders again; the arrays are
\* new objects, so the persist effect's dependencies have changed
Rerender ==
    /\ effects = <<>>
    /\ queued # <<>>
    /\ accounts' = queued[Len(queued)].accounts
    /\ transactions' = queued[Len(queued)].transactions
    /\ initialized' = queued[Len(queued)].initialized
    /\ queued' = <<>>
    /\ effects' = <<"persist">>
    /\ UNCHANGED <<storage, now, uiVars, out, showDeleteConfirm, deleteItem, deleteType,
                   mounted, peer, inbox, clock, retired>>

\* the page is closed or reloaded: the component and its state are gone
Unmount ==
    /\ mounted # "none"
    /\ effects = <<>>
    /\ queued = <<>>
    /\ mounted' = "none"
    /\ accounts' = <<>>
    /\ transactions' = <<>>
    /\ initialized' = FALSE
    /\ UNCHANGED <<storage, now, uiVars, out, showDeleteConfirm, deleteItem, deleteType,
                   effects, queued, peer, inbox, clock, retired>>

\* a store written by earlier sessions, with at least one account; no dashboard mounted
InitMount ==
    /\ accounts = <<>>
    /\ transactions = <<>>
    /\ now = Jan31
    /\ UiInit
    /\ LifeInit
    /\ \E accts \in CoreAccountSnapshots \ {<<>>}, txs \in TxSnapshots(CoreTxChoices) :
            storage = Persisted(accts, txs)

NextMount ==
    \/ \E version \in Versions, strict \in BOOLEAN : RootRender(version, strict)
    \/ LoadEffect
    \/ LoadEffectV2
    \/ PersistEffect
    \/ PersistEffectV2
    \/ Rerender
    \/ Unmount

SpecMount == InitMount /\ [][NextMount]_vars

\* C24: data is persisted only after the initial load: across any mount / unmount /
\* remount sequence of the dashboard, also under React.StrictMode, the accounts and
\* transactions already in storage are never overwritten, so no step of mounting
\* changes what is stored.
C24_MountKeepsStorage == [][storage' = storage]_vars

-----------------------------------------------------------------------------
(* Two tabs showing the same dashboard over one localStorage                *)

\* the most storage events in flight to one tab; a step that could add two events runs
\* only while the other tab's inbox has room for both
MaxInbox == 3

\* the accounts and transactions a tab holds in its component state
Memory(tab) ==
    IF tab = 1 THEN [accounts |-> accounts, transactions |-> transactions] ELSE peer

\* the other tab
Other(tab) == 3 - tab

\* the storage events of a persist effect: setItem of the accounts key, then of the
\* transactions key, each fires in the other tabs if it changes the stored value
StorageEvents(old, new) ==
    (IF new.accounts # old.accounts
     THEN <<[key |-> "accounts", newValue |-> new.accounts]>> ELSE <<>>)
    \o (IF new.transactions # old.transactions
        THEN <<[key |-> "transactions", newValue |-> new.transactions]>> ELSE <<>>)

\* setAccounts / setTransactions in a tab, then its persist effect; rest is what stays
\* in the tab's own inbox
SetAndPersist(tab, memory, rest) ==
    /\ IF tab = 1
       THEN /\ accounts' = memory.accounts
            /\ transactions' = memory.transactions
            /\ peer' = peer
       ELSE /\ peer' = memory
            /\ UNCHANGED <<accounts, transactions>>
    /\ storage' = Persisted(memory.accounts, memory.transactions)
    /\ inbox' = [inbox EXCEPT ![tab] = rest,
                              ![Other(tab)] = @ \o StorageEvents(storage, storage')]

\* handleSaveAccount for a new account in one of the tabs
handleSaveAccountIn(tab) ==
    /\ clock < MaxClock
    /\ Len(inbox[Other(tab)]) < MaxInbox - 1
    /\ SetAndPersist(tab,
                     [Memory(tab) EXCEPT !.accounts =
                         Append(@, [id |-> DateNowString, name |-> "card",
                                    accountType |-> "credit", limit |-> 1000, apr |-> 12])],
                     inbox[tab])
    /\ clock' = clock + 1
    /\ UNCHANGED <<now, uiVars, out, showDeleteConfirm, deleteItem, deleteType,
                   mounted, initialized, effects, queued, retired>>

\* handleSaveTransaction for a new transaction in one of the tabs; the second dashboard
\* sorts the list, the third appends
handleSaveTransactionIn(tab, accountId) ==
    /\ clock < MaxClock
    /\ Len(inbox[Other(tab)]) < MaxInbox - 1
    /\ accountId \in IdsOf(Memory(tab).accounts)
    /\ Len(Memory(tab).transactions) < MaxTx
    /\ LET appended == Append(Memory(tab).transactions,
                              [id |-> DateNowString, accountId |-> accountId,
                               amount |-> 500, type |-> "credit", date |-> now])
       IN  SetAndPersist(tab,
                         [Memory(tab) EXCEPT !.transactions =
                             IF mounted = "V2" THEN SortByDate(appended) ELSE appended],
                         inbox[tab])
    /\ clock' = clock + 1
    /\ UNCHANGED <<now, uiVars, out, showDeleteConfirm, deleteItem, deleteType,
                   mounted, initialized, effects, queued, retired>>

\* handleStorageChange of the second dashboard: the state of the event's key is set
\* from event.newValue, then the persist effect runs
handleStorageChange(tab) ==
    /\ mounted = "V2"
    /\ inbox[tab] # <<>>
    /\ Len(inbox[Other(tab)]) < MaxInbox - 1
    /\ LET event == Head(inbox[tab])
       IN  SetAndPersist(tab,
                         IF event.key = "accounts"
                         THEN [Memory(tab) EXCEPT !.accounts = event.newValue]
                         ELSE [Memory(tab) EXCEPT !.transactions = event.newValue],
                         Tail(inbox[tab]))
    /\ UNCHANGED <<now, uiVars, out, showDeleteConfirm, deleteItem, deleteType,
                   mounted, initialized, effects, queued, clock, retired>>

\* handleStorageChange of the third dashboard: loadData reads both keys as they are
\* stored now, then the persist effect runs
handleStorageChangeV3(tab) ==
    /\ mounted = "V3"
    /\ inbox[tab] # <<>>
    /\ SetAndPersist(tab, storage, Tail(inbox[tab]))
    /\ UNCHANGED <<now, uiVars, out, showDeleteConfirm, deleteItem, deleteType,
                   mounted, initialized, effects, queued, clock, retired>>

\* both tabs have mounted the same dashboard over an empty store
InitTabs ==
    /\ accounts = <<>>
    /\ transactions = <<>>
    /\ now = Dec31
    /\ UiInit
    /\ showDeleteConfirm = FALSE
    /\ deleteItem = ""
    /\ deleteType = ""
    /\ mounted \in {"V2", "V3"}
    /\ initialized = TRUE
    /\ effects = <<>>
    /\ queued = <<>>
    /\ peer = [accounts |-> <<>>, transactions |-> <<>>]
    /\ inbox = [tab \in Tabs |-> <<>>]
    /\ clock = 1
    /\ retired = [accounts |-> {}, transactions |-> {}]
    /\ StoreInit

NextTabs ==
    \/ \E tab \in Tabs : handleSaveAccountIn(tab)
    \/ \E tab \in Tabs, accountId \in ClockIds : handleSaveTransactionIn(tab, accountId)
    \/ \E tab \in Tabs : handleStorageChange(tab)
    \/ \E tab \in Tabs : handleStorageChangeV3(tab)

SpecTabs == InitTabs /\ [][NextTabs]_vars

\* the ids of the records saved so far, in either tab: one per millisecond passed
Issued == {ToString(ms) : ms \in 1..(clock - 1)}

\* C25: with two dashboard tabs sharing the store, once the storage-event exchange has
\* ended (no event in flight), every tab's in-memory accounts and transactions equal
\* the persisted ones, and the persisted ones contain every record that was saved in
\* either tab.
C25_TabsConverge ==
    (\A tab \in Tabs : inbox[tab] = <<>>)
    => /\ \A tab \in Tabs : Memory(tab) = storage
       /\ IdsOf(storage.accounts) \cup TxIdsOf(storage.transactions) = Issued

=============================================================================
